---- MODULE Spec2Model ----
(***************************************************************************)
(* A model of src/CoinGecko.py: one Streamlit script that pings the        *)
(* CoinGecko API, fetches a market snapshot, renders cards, a table and    *)
(* per-coin charts, sleeps `interval` seconds and reruns itself.           *)
(* The three fetch functions are memoized by st.cache_data with a TTL.     *)
(* Time is counted in whole seconds; a cache entry carries its age.        *)
(***************************************************************************)
EXTENDS Integers, Sequences, FiniteSets, TLC

VARIABLES
    widgets,      \* the session's widget values (sidebar, lines 25-35)
    pc,           \* position of the script run
    df,           \* result of fetch_market_data of this run (line 104)
    ci,           \* index of the chart loop `for coin in coins` (line 185)
    i,            \* index of the refresh loop `for i in range(interval)` (line 205)
    progress,     \* the progress bar: {} before it exists, else {<<num, den>>}
    screen,       \* the elements this run has rendered, in order
    netlog,       \* the network requests this run has issued, in order
    cache,        \* st.cache_data: the memoized entries of the three functions
    reqs,         \* history: the last request of each (function, arguments) and its age
    obs           \* history: the last call of a memoized function

vars == <<widgets, pc, df, ci, i, progress, screen, netlog, cache, reqs, obs>>

----------------------------------------------------------------------------
\* Program constants

PingTTL == 60
QuoteTTL == 30
ChartTTL == 120
IntervalMin == 20
IntervalMax == 120
IntervalStep == 5
MaxCardColumns == 4

\* Bounds of the model

\* the slider positions explored: interval = IntervalMin + IntervalStep * pos
MaxSliderPos == 1

----------------------------------------------------------------------------
\* Small helpers

Min(a, b) == IF a < b THEN a ELSE b

Abs(x) == IF x < 0 THEN -x ELSE x

Range(s) == {s[n] : n \in 1..Len(s)}

RECURSIVE SelectIdx(_, _, _)
\* the indices n of s, from k on, with Test(s[n]) marked TRUE in keep
SelectIdx(keep, k, acc) ==
    IF k > Len(keep) THEN acc
    ELSE SelectIdx(keep, k + 1, IF keep[k] THEN Append(acc, k) ELSE acc)

----------------------------------------------------------------------------
\* The environment: what the user can type and what the API can answer

\* the text input, already cut at the commas (coins_input.split(","))
CoinInputs ==
    { <<" Ethereum ", "", "BITCOIN">>,
      <<"bitcoin", "bitcoin", "doesnotexist">>,
      <<"doesnotexist">> }

Currencies == {"usd", "idr"}

Intervals == {IntervalMin + IntervalStep * p : p \in 0..MaxSliderPos}

ChartDays == {1}

WidgetStates ==
    [coins_input : CoinInputs, vs_currency : Currencies, interval : Intervals,
     show_chart : BOOLEAN, chart_days : ChartDays]

\* the ids the API lists, in the order it returns them (market cap)
Listed == <<"bitcoin", "ethereum">>

\* how long the user waits before acting on a halted page
UserDelays == {0, QuoteTTL, PingTTL, ChartTTL}

----------------------------------------------------------------------------
\* str.strip, str.lower, str.upper on the strings of the model

Strip(s) ==
    CASE s = " Ethereum " -> "Ethereum"
      [] OTHER -> s

Lower(s) ==
    CASE s = "Ethereum" -> "ethereum"
      [] s = "BITCOIN" -> "bitcoin"
      [] OTHER -> s

Upper(s) ==
    CASE s = "btc" -> "BTC"
      [] s = "eth" -> "ETH"
      [] s = "usd" -> "USD"
      [] s = "idr" -> "IDR"
      [] OTHER -> s

\* line 31: [c.strip().lower() for c in coins_input.split(",") if c.strip()]
ParseCoins(fields) ==
    LET keep == [n \in 1..Len(fields) |-> Strip(fields[n]) # ""]
        idx == SelectIdx(keep, 1, <<>>)
    IN [n \in 1..Len(idx) |-> Lower(Strip(fields[idx[n]]))]

coins == ParseCoins(widgets.coins_input)
vs_currency == widgets.vs_currency
interval == widgets.interval
show_chart == widgets.show_chart
chart_days == widgets.chart_days

----------------------------------------------------------------------------
\* The market snapshot: rows of /coins/markets and the DataFrame built of them

P1h == "price_change_percentage_1h_in_currency"
P24h == "price_change_percentage_24h_in_currency"
P7d == "price_change_percentage_7d_in_currency"

PctFields == {P1h, P24h, P7d}

\* a JSON number (thousandths of a percent), JSON null, or no such key in the object
Num(n) == [k |-> "num", v |-> n]
Null == [k |-> "null", v |-> 0]
Absent == [k |-> "absent", v |-> 0]
\* what pandas holds in a cell without a number: NaN (float column) or None (object column)
NaN == [k |-> "nan", v |-> 0]
None == [k |-> "none", v |-> 0]

\* the percentage fields of a row, as the API may send them
PctFull == [h1 |-> Num(5200), h24 |-> Num(-3100), d7 |-> Num(0)]
PctNulls == [h1 |-> Null, h24 |-> Null, d7 |-> Num(1500)]
PctMissing == [h1 |-> Absent, h24 |-> Num(4), d7 |-> Num(-4)]

\* the variants explored per id
PctVariants(id) == IF id = "bitcoin" THEN {PctFull, PctNulls, PctMissing} ELSE {PctFull}

Symbol(id) == IF id = "bitcoin" THEN "btc" ELSE "eth"
Name(id) == IF id = "bitcoin" THEN "Bitcoin" ELSE "Ethereum"
Rank(id) == IF id = "bitcoin" THEN 1 ELSE 2

\* one element of the response array
ApiRow(id, p) ==
    [id |-> id, symbol |-> Symbol(id), name |-> Name(id), image |-> "png",
     current_price |-> 1234500, high_24h |-> 1300000, low_24h |-> 1200000,
     ath |-> 2000000, market_cap |-> 1234567, total_volume |-> 7654321,
     market_cap_rank |-> Rank(id), fully_diluted_valuation |-> 2345678,
     last_updated |-> "2024-01-01T00:00:00Z",
     price_change_percentage_1h_in_currency |-> p.h1,
     price_change_percentage_24h_in_currency |-> p.h24,
     price_change_percentage_7d_in_currency |-> p.d7]

ApiFields == DOMAIN ApiRow("bitcoin", PctFull)

\* the response arrays for a request of `ids`: one row for each requested id the API
\* lists, each id once, in the API's order; an id it does not list yields no row
QuoteArrays(ids) ==
    LET idx == SelectIdx([n \in 1..Len(Listed) |-> Listed[n] \in Range(ids)], 1, <<>>)
    IN { [n \in 1..Len(idx) |-> ApiRow(Listed[idx[n]], ps[n])] :
            ps \in { q \in [1..Len(idx) -> {PctFull, PctNulls, PctMissing}] :
                       \A n \in 1..Len(idx) : q[n] \in PctVariants(Listed[idx[n]]) } }

\* what requests.get + raise_for_status + r.json() can end in
QuoteErrors == {"Timeout", "ConnectionError", "HTTPError", "JSONDecodeError"}

QuoteResponses(ids) ==
    { [err |-> e, rows |-> <<>>] : e \in QuoteErrors }
    \cup { [err |-> "", rows |-> a] : a \in QuoteArrays(ids) }

\* pd.DataFrame(list of dicts): a column for every key some row has; a cell without
\* a number is NaN, or None where the column holds no number at all and the row sent null
DataFrame(rows) ==
    LET cols == {f \in ApiFields : f \notin PctFields
                    \/ \E n \in 1..Len(rows) : rows[n][f].k # "absent"}
        numeric(f) == \E n \in 1..Len(rows) : rows[n][f].k = "num"
        cell(r, f) == IF f \notin PctFields \/ r[f].k = "num" THEN r[f]
                      ELSE IF r[f].k = "null" /\ ~numeric(f) THEN None
                      ELSE NaN
    IN [columns |-> IF Len(rows) = 0 THEN {} ELSE cols,
        rows |-> [n \in 1..Len(rows) |-> [f \in ApiFields |-> cell(rows[n], f)]]]

NoFrame == [columns |-> {}, rows |-> <<>>]

\* DataFrame.empty
empty(d) == Len(d.rows) = 0 \/ d.columns = {}

\* pd.isna / pd.notna on a percentage cell
isna(val) == val.k \in {"nan", "none"}
notna(val) == ~isna(val)

\* lines 55-65: the body of fetch_market_data on a response; raising is (raised, err)
fetch_market_data(resp) ==
    IF resp.err # "" THEN [raised |-> TRUE, err |-> resp.err, df |-> NoFrame]
    ELSE [raised |-> FALSE, err |-> "", df |-> DataFrame(resp.rows)]

----------------------------------------------------------------------------
\* The liveness ping and the price history

\* what the ping request can end in: the seconds it took, or a RequestException
PingResponses ==
    { [err |-> "", took |-> 1] }
    \cup { [err |-> e, took |-> 0] : e \in {"Timeout", "ConnectionError", "HTTPError"} }

\* lines 44-52: the body of ping_api on a response
ping_api(resp) == IF resp.err = "" THEN resp.took ELSE -1

\* what the market_chart request can end in: the "prices" array of the payload,
\* [epoch-millis, price] pairs, or an error (a payload of the wrong shape included)
ChartResponses ==
    { [err |-> "", prices |-> << <<86400000, 42000>>, <<86700500, 42100>> >>],
      [err |-> "", prices |-> <<>>] }
    \cup { [err |-> e, prices |-> <<>>] :
             e \in {"Timeout", "ConnectionError", "HTTPError", "ValueError"} }

\* pd.to_datetime(ms, unit="ms")
to_datetime(ms) == [sec |-> ms \div 1000, msec |-> ms % 1000]

NoSeries == [columns |-> <<"timestamp", "price">>, rows |-> <<>>]

\* fetch_market_chart without its try/except: an error of the request is raised
fetch_market_chart_Uncaught(resp) ==
    IF resp.err = ""
    THEN [raised |-> FALSE, err |-> "",
          df |-> [columns |-> <<"timestamp_ms", "price", "timestamp">>,
                  rows |-> [n \in 1..Len(resp.prices) |->
                              [timestamp_ms |-> resp.prices[n][1],
                               price |-> resp.prices[n][2],
                               timestamp |-> to_datetime(resp.prices[n][1])]]]]
    ELSE [raised |-> TRUE, err |-> resp.err, df |-> NoSeries]

\* lines 68-80: the body of fetch_market_chart on a response: every error is caught
\* and answered with an empty frame
fetch_market_chart(resp) ==
    IF resp.err = ""
    THEN [raised |-> FALSE, err |-> "",
          df |-> [columns |-> <<"timestamp_ms", "price", "timestamp">>,
                  rows |-> [n \in 1..Len(resp.prices) |->
                              [timestamp_ms |-> resp.prices[n][1],
                               price |-> resp.prices[n][2],
                               timestamp |-> to_datetime(resp.prices[n][1])]]]]
    ELSE [raised |-> FALSE, err |-> "", df |-> NoSeries]

----------------------------------------------------------------------------
\* Styling and formatting

\* color_delta with `val >= 0` for `val > 0`
color_delta_ZeroGreen(val) ==
    IF isna(val) THEN ""
    ELSE IF val.v >= 0 THEN "color: green; font-weight: bold;"
    ELSE "color: red; font-weight: bold;"

\* lines 85-89
color_delta(val) ==
    IF isna(val) THEN ""
    ELSE IF val.v > 0 THEN "color: green; font-weight: bold;"
    ELSE "color: red; font-weight: bold;"

\* "{:.2f}" of a number given in thousandths: sign, whole part, two decimals
Format2f(n) ==
    LET a == Abs(n)
        q == a \div 10
        r == a % 10
        c == IF r > 5 \/ (r = 5 /\ q % 2 = 1) THEN q + 1 ELSE q
    IN [neg |-> n < 0, whole |-> c \div 100, frac |-> c % 100]

\* lines 116-125
columns_display ==
    << "symbol", "name", "current_price", P1h, P24h, P7d, "high_24h", "low_24h",
       "ath", "market_cap", "total_volume", "market_cap_rank",
       "fully_diluted_valuation", "last_updated" >>

\* lines 128-143: the display label of a source column
Rename(col, cur) ==
    CASE col = "symbol" -> "Symbol"
      [] col = "name" -> "Coin"
      [] col = "current_price" -> "Price (" \o Upper(cur) \o ")"
      [] col = P1h -> "1H %"
      [] col = P24h -> "24H %"
      [] col = P7d -> "7D %"
      [] col = "high_24h" -> "24H High"
      [] col = "low_24h" -> "24H Low"
      [] col = "ath" -> "All Time High"
      [] col = "market_cap" -> "Market Cap"
      [] col = "total_volume" -> "Volume 24H"
      [] col = "market_cap_rank" -> "Rank"
      [] col = "fully_diluted_valuation" -> "FDV"
      [] col = "last_updated" -> "Last Update"

\* lines 164-175: the format string Styler.format gives a display column ("" for none)
FormatOf(label, cur) ==
    CASE label \in {"Price (" \o Upper(cur) \o ")", "24H High", "24H Low", "All Time High"}
           -> "{:,.4f}"
      [] label \in {"1H %", "24H %", "7D %"} -> "{:.2f}"
      [] label \in {"Market Cap", "Volume 24H", "FDV"} -> "{:,.0f}"
      [] OTHER -> ""

\* line 175: the columns color_delta is applied to
StyledLabels == {"1H %", "24H %", "7D %"}

\* line 127: df[columns_display] raises KeyError when a column is missing
ProjectRaises(d) == \E n \in 1..Len(columns_display) : columns_display[n] \notin d.columns

\* lines 127-143: df_display
Project(d, cur) ==
    [columns |-> [n \in 1..Len(columns_display) |-> Rename(columns_display[n], cur)],
     rows |-> [m \in 1..Len(d.rows) |->
                 [n \in 1..Len(columns_display) |-> d.rows[m][columns_display[n]]]]]

\* lines 150-157: the metric card of row r in column col; `dash` says the delta is
\* the dash
Metric(r, cur, col) ==
    LET delta_24h == r[P24h]
    IN [kind |-> "metric", of |-> "cards", col |-> col,
        label |-> <<r["name"], Upper(r["symbol"])>>,
        value |-> <<r["current_price"], Upper(cur)>>,
        dash |-> ~notna(delta_24h),
        delta |-> IF notna(delta_24h) THEN Format2f(delta_24h.v) ELSE Format2f(0)]

\* lines 149-157: one card per row of df, dealt over min(len(df), 4) columns
Cards(d, cur) ==
    LET cols == Min(Len(d.rows), MaxCardColumns)
    IN [m \in 1..Len(d.rows) |-> Metric(d.rows[m], cur, (m - 1) % cols)]

\* lines 164-175: "{:.2f}".format(None) raises TypeError; NaN formats as "nan"
TableRaises(dd, cur) ==
    \E m \in 1..Len(dd.rows) : \E n \in 1..Len(dd.columns) :
        /\ dd.columns[n] \in StyledLabels
        /\ dd.rows[m][n].k = "none"

\* the text and style of a table cell (Styler.format, Styler.applymap on the % columns);
\* a percentage cell shows its number in two decimals, or "nan"
TableCell(label, val, cur) ==
    IF label \in StyledLabels
    THEN [fmt |-> FormatOf(label, cur), shows |-> IF isna(val) THEN "nan" ELSE "number",
          text |-> IF isna(val) THEN Format2f(0) ELSE Format2f(val.v),
          style |-> color_delta(val)]
    ELSE [fmt |-> FormatOf(label, cur), shows |-> "value", text |-> val, style |-> ""]

\* lines 163-178: the table st.dataframe shows of df_display
Table(dd, cur) ==
    [kind |-> "dataframe", of |-> "table",
     columns |-> dd.columns,
     rows |-> [m \in 1..Len(dd.rows) |->
                 [n \in 1..Len(dd.columns) |-> TableCell(dd.columns[n], dd.rows[m][n], cur)]]]

----------------------------------------------------------------------------
\* st.cache_data: entries keyed by the arguments, dropped when their age reaches the TTL

CacheGet(c, key) == {e \in c : e.key = key}

CachePut(c, key, val) == {e \in c : e.key # key} \cup {[key |-> key, val |-> val, age |-> 0]}

\* the entries of c after d more seconds
Expire(c, ttl, d) == {[e EXCEPT !.age = @ + d] : e \in {x \in c : x.age + d < ttl}}

\* StorePing that keeps no failure
StorePing_SkipFailure(c, ret) == IF ret < 0 THEN c ELSE CachePut(c, <<>>, ret)

\* line 43: what @st.cache_data(ttl=60) keeps of a call of ping_api that returned ret
StorePing(c, ret) == CachePut(c, <<>>, ret)

\* line 54: what @st.cache_data(ttl=30) keeps of a call of fetch_market_data:
\* a raised exception is not a result and is not kept
StoreQuotes(c, key, ret) == IF ret.raised THEN c ELSE CachePut(c, key, ret.df)

\* line 67: what @st.cache_data(ttl=120) keeps of a call of fetch_market_chart
StoreChart(c, key, ret) == IF ret.raised THEN c ELSE CachePut(c, key, ret.df)

\* ExpireAll with the quotes kept for the TTL of the ping
ExpireAll_QuotesKeptLonger(c, d) ==
    [ping |-> Expire(c.ping, PingTTL, d),
     quotes |-> Expire(c.quotes, PingTTL, d),
     chart |-> Expire(c.chart, ChartTTL, d)]

\* the three caches after d more seconds
ExpireAll(c, d) ==
    [ping |-> Expire(c.ping, PingTTL, d),
     quotes |-> Expire(c.quotes, QuoteTTL, d),
     chart |-> Expire(c.chart, ChartTTL, d)]

\* d seconds pass: time.sleep, or the user waiting
Elapse(d) ==
    /\ cache' = ExpireAll(cache, d)
    /\ reqs' = [ping |-> Expire(reqs.ping, PingTTL, d),
                quotes |-> Expire(reqs.quotes, QuoteTTL, d),
                chart |-> Expire(reqs.chart, ChartTTL, d)]

\* the arguments of the two keyed calls
QuoteKey == <<vs_currency, coins>>
ChartKey(coin) == <<coin, vs_currency, chart_days>>

----------------------------------------------------------------------------
\* The script

NoObs == [fn |-> "", key |-> <<>>, prior |-> {}, net |-> FALSE, failed |-> FALSE, ret |-> 0]

Init ==
    /\ widgets \in WidgetStates
    /\ pc = "ping"
    /\ df = NoFrame
    /\ ci = 0
    /\ i = 0
    /\ progress = {}
    /\ screen = <<>>
    /\ netlog = <<>>
    /\ cache = [ping |-> {}, quotes |-> {}, chart |-> {}]
    /\ reqs = [ping |-> {}, quotes |-> {}, chart |-> {}]
    /\ obs = NoObs

\* lines 12-38: a run begins with an empty page and reads the widgets
Begin ==
    /\ pc' = "ping"
    /\ screen' = <<>>
    /\ netlog' = <<>>
    /\ df' = NoFrame
    /\ ci' = 0
    /\ i' = 0
    /\ progress' = {}
    /\ obs' = NoObs

\* lines 94-98: the status line of the ping
PingStatus(ping_time) ==
    IF ping_time < 0 THEN [kind |-> "error", of |-> "ping", arg |-> "unreachable"]
    ELSE [kind |-> "success", of |-> "ping", arg |-> ping_time]

\* lines 94-98: ping_api() through its cache, then the status line
Ping ==
    /\ pc = "ping"
    /\ LET hit == CacheGet(cache.ping, <<>>)
           prior == CacheGet(reqs.ping, <<>>)
       IN \/ /\ hit # {}
             /\ LET ret == (CHOOSE e \in hit : TRUE).val
                IN /\ screen' = Append(screen, PingStatus(ret))
                   /\ obs' = [fn |-> "ping", key |-> <<>>, prior |-> prior,
                              net |-> FALSE, failed |-> FALSE, ret |-> ret]
             /\ UNCHANGED <<cache, reqs, netlog>>
          \/ /\ hit = {}
             /\ \E resp \in PingResponses :
                  LET ret == ping_api(resp)
                  IN /\ cache' = [cache EXCEPT !.ping = StorePing(@, ret)]
                     /\ reqs' = [reqs EXCEPT !.ping =
                                   CachePut(@, <<>>, [failed |-> resp.err # "", ret |-> ret])]
                     /\ netlog' = Append(netlog, [fn |-> "ping", key |-> <<>>])
                     /\ screen' = Append(screen, PingStatus(ret))
                     /\ obs' = [fn |-> "ping", key |-> <<>>, prior |-> prior,
                                net |-> TRUE, failed |-> resp.err # "", ret |-> ret]
    /\ pc' = "quotes"
    /\ UNCHANGED <<widgets, df, ci, i, progress>>

\* AfterQuotes without the st.stop() of line 111
AfterQuotes_NoStopOnEmpty(ret) ==
    IF ret.raised
    THEN [pc |-> "stopped", show |-> <<[kind |-> "error", of |-> "quotes", arg |-> ret.err]>>]
    ELSE IF empty(ret.df)
    THEN [pc |-> "cards", show |-> <<[kind |-> "warning", of |-> "quotes", arg |-> "empty"]>>]
    ELSE [pc |-> "cards", show |-> <<>>]

\* lines 103-111: where the run goes after the quote fetch, and what it shows
AfterQuotes(ret) ==
    IF ret.raised
    THEN [pc |-> "stopped", show |-> <<[kind |-> "error", of |-> "quotes", arg |-> ret.err]>>]
    ELSE IF empty(ret.df)
    THEN [pc |-> "stopped", show |-> <<[kind |-> "warning", of |-> "quotes", arg |-> "empty"]>>]
    ELSE [pc |-> "cards", show |-> <<>>]

\* lines 103-111: fetch_market_data(vs_currency, coins) through its cache
Quotes ==
    /\ pc = "quotes"
    /\ LET hit == CacheGet(cache.quotes, QuoteKey)
           prior == CacheGet(reqs.quotes, QuoteKey)
       IN \/ /\ hit # {}
             /\ LET ret == [raised |-> FALSE, err |-> "", df |-> (CHOOSE e \in hit : TRUE).val]
                IN /\ df' = ret.df
                   /\ pc' = AfterQuotes(ret).pc
                   /\ screen' = screen \o AfterQuotes(ret).show
                   /\ obs' = [fn |-> "quotes", key |-> QuoteKey, prior |-> prior,
                              net |-> FALSE, failed |-> FALSE, ret |-> ret]
             /\ UNCHANGED <<cache, reqs, netlog>>
          \/ /\ hit = {}
             /\ \E resp \in QuoteResponses(coins) :
                  LET ret == fetch_market_data(resp)
                  IN /\ cache' = [cache EXCEPT !.quotes = StoreQuotes(@, QuoteKey, ret)]
                     /\ reqs' = [reqs EXCEPT !.quotes =
                                   CachePut(@, QuoteKey, [failed |-> resp.err # "", ret |-> ret.df])]
                     /\ netlog' = Append(netlog, [fn |-> "quotes", key |-> QuoteKey])
                     /\ df' = ret.df
                     /\ pc' = AfterQuotes(ret).pc
                     /\ screen' = screen \o AfterQuotes(ret).show
                     /\ obs' = [fn |-> "quotes", key |-> QuoteKey, prior |-> prior,
                                net |-> TRUE, failed |-> resp.err # "", ret |-> ret]
    /\ UNCHANGED <<widgets, ci, i, progress>>

\* lines 116-157: the projection to the display columns, then the cards;
\* an uncaught KeyError ends the run
RenderCards ==
    /\ pc = "cards"
    /\ IF ProjectRaises(df)
       THEN /\ pc' = "crashed"
            /\ screen' = Append(screen, [kind |-> "exception", of |-> "run", arg |-> "KeyError"])
       ELSE /\ pc' = "table"
            /\ screen' = screen \o Cards(df, vs_currency)
    /\ UNCHANGED <<widgets, df, ci, i, progress, netlog, cache, reqs, obs>>

\* lines 162-178: the table; an uncaught TypeError ends the run
RenderTable ==
    /\ pc = "table"
    /\ LET df_display == Project(df, vs_currency)
       IN IF TableRaises(df_display, vs_currency)
          THEN /\ pc' = "crashed"
               /\ screen' = Append(screen, [kind |-> "exception", of |-> "run", arg |-> "TypeError"])
          ELSE /\ pc' = "charts"
               /\ screen' = Append(screen, Table(df_display, vs_currency))
    /\ UNCHANGED <<widgets, df, ci, i, progress, netlog, cache, reqs, obs>>

\* the chart loop over the rows of df for the requested ids
ChartOrder_ByRows == [n \in 1..Len(df.rows) |-> df.rows[n]["id"]]

\* line 185: the ids the chart loop visits, in order
ChartOrder == coins

\* lines 187-196: what the loop shows for one coin
ChartPanel(coin, data) ==
    IF Len(data.rows) = 0
    THEN [kind |-> "warning", of |-> "chart", arg |-> coin]
    ELSE [kind |-> "plotly_chart", of |-> "chart", arg |-> coin]

\* lines 185-196: one turn of the chart loop: fetch_market_chart through its cache,
\* then the panel or the warning
ChartNext ==
    /\ pc = "charts"
    /\ show_chart
    /\ ci < Len(ChartOrder)
    /\ LET coin == ChartOrder[ci + 1]
           key == ChartKey(coin)
           hit == CacheGet(cache.chart, key)
           prior == CacheGet(reqs.chart, key)
       IN \/ /\ hit # {}
             /\ LET ret == [raised |-> FALSE, err |-> "", df |-> (CHOOSE e \in hit : TRUE).val]
                IN /\ screen' = Append(screen, ChartPanel(coin, ret.df))
                   /\ obs' = [fn |-> "chart", key |-> key, prior |-> prior,
                              net |-> FALSE, failed |-> FALSE, ret |-> ret]
             /\ pc' = "charts"
             /\ ci' = ci + 1
             /\ UNCHANGED <<cache, reqs, netlog>>
          \/ /\ hit = {}
             /\ \E resp \in ChartResponses :
                  LET ret == fetch_market_chart(resp)
                      seen == [failed |-> resp.err # "", ret |-> ret.df]
                  IN /\ cache' = [cache EXCEPT !.chart = StoreChart(@, key, ret)]
                     /\ reqs' = [reqs EXCEPT !.chart = CachePut(@, key, seen)]
                     /\ netlog' = Append(netlog, [fn |-> "chart", key |-> key])
                     /\ obs' = [fn |-> "chart", key |-> key, prior |-> prior,
                                net |-> TRUE, failed |-> resp.err # "", ret |-> ret]
                     /\ IF ret.raised
                        THEN /\ pc' = "crashed"
                             /\ ci' = ci
                             /\ screen' = Append(screen, [kind |-> "exception", of |-> "run", arg |-> ret.err])
                        ELSE /\ pc' = "charts"
                             /\ ci' = ci + 1
                             /\ screen' = Append(screen, ChartPanel(coin, ret.df))
    /\ UNCHANGED <<widgets, df, i, progress>>

\* lines 183, 201-204: past the charts, the progress bar is created at 0
ChartsDone ==
    /\ pc = "charts"
    /\ ~show_chart \/ ci >= Len(ChartOrder)
    /\ pc' = "wait"
    /\ i' = 0
    /\ progress' = {<<0, interval>>}
    /\ UNCHANGED <<widgets, df, ci, screen, netlog, cache, reqs, obs>>

\* ProgressValue with i / interval for (i + 1) / interval
ProgressValue_FromZero(n, total) == <<n, total>>

\* line 206: the fraction shown in turn n of the loop, as <<numerator, denominator>>
ProgressValue(n, total) == <<n + 1, total>>

\* lines 205-207: one turn of the refresh loop
Tick ==
    /\ pc = "wait"
    /\ i < interval
    /\ progress' = {ProgressValue(i, interval)}
    /\ Elapse(1)
    /\ i' = i + 1
    /\ UNCHANGED <<widgets, pc, df, ci, screen, netlog, obs>>

\* lines 210-213: st.experimental_rerun(), or st.rerun() where the former is gone
Rerun ==
    /\ pc = "wait"
    /\ i >= interval
    /\ \E legacy \in BOOLEAN : Begin
    /\ UNCHANGED <<widgets, cache, reqs>>

\* a halted run (st.stop at lines 107 and 111, or an uncaught exception) runs again
\* only when the user reruns the page, some time later
UserRerun ==
    /\ pc \in {"stopped", "crashed"}
    /\ \E d \in UserDelays : Elapse(d)
    /\ UNCHANGED widgets
    /\ Begin

Script ==
    \/ Ping
    \/ Quotes
    \/ RenderCards
    \/ RenderTable
    \/ ChartNext
    \/ ChartsDone
    \/ Tick
    \/ Rerun

Next == Script \/ UserRerun

Spec == Init /\ [][Next]_vars

\* the script's steps are taken when they can be; the user need never act
FairSpec == Spec /\ WF_vars(Script)

----------------------------------------------------------------------------
\* Properties

Rendering == pc \in {"ping", "quotes", "cards", "table", "charts"}
Waiting == pc = "wait"

\* the elements of the page that belong to one stage of the script
Shown(stage) == SelectSeq(screen, LAMBDA e : e.of = stage)
\* the requests of this run made by one function
Requested(fn) == SelectSeq(netlog, LAMBDA r : r.fn = fn)

\* the last request with the arguments of the observed call, if one was made within
\* that function's TTL before the call
Prior == CHOOSE e \in obs.prior : TRUE

QuoteFetchFailed == pc = "stopped" /\ obs.fn = "quotes" /\ obs.ret.raised

\* C1: after a run whose quote fetch failed, a new run that renders (and so fetches
\* the quotes again) eventually starts, with no user action
C1_RetryAfterQuoteFailure == QuoteFetchFailed ~> Rendering

\* the quote fetch of this run raised or returned no rows
QuoteBad == obs.fn = "quotes" /\ (obs.ret.raised \/ empty(obs.ret.df))

\* C2: a run whose quote fetch raised or returned zero rows halts there; after the
\* ping status it shows exactly one message (error if raised, warning if empty), no
\* card, no table, no chart, and it has issued no history request
C2_HaltedRunRendersNothing ==
    QuoteBad =>
        LET status == Shown("ping")
            said == Shown("quotes")
        IN /\ pc = "stopped"
           /\ Len(said) = 1
           /\ said[1].kind = (IF obs.ret.raised THEN "error" ELSE "warning")
           /\ Len(status) = 1
           /\ screen = status \o said
           /\ \A n \in 1..Len(screen) :
                 screen[n].kind \notin {"metric", "dataframe", "plotly_chart"}
           /\ Requested("chart") = <<>>

C2_Witness ==
    /\ pc = "stopped"
    /\ show_chart
    /\ obs.fn = "quotes"
    /\ ~obs.ret.raised
    /\ empty(obs.ret.df)
    /\ Len(coins) > 0

\* C3: WAITING is entered only from the end of rendering, with the countdown at 0;
\* in WAITING the only steps are `interval` ticks, each moving the countdown one
\* step up, and then the rerun, which is taken exactly when the countdown is full;
\* the countdown is full exactly after the last tick; interval is a slider value
C3_WaitingTicksThenRerun ==
    [][ /\ (pc # "wait" /\ pc' = "wait") =>
              (pc = "charts" /\ i' = 0 /\ progress' = {<<0, interval>>})
        /\ (pc = "charts") => (pc' \in {"charts", "wait"})
        /\ (pc = "wait") =>
              /\ interval \in IntervalMin..IntervalMax
              /\ \/ /\ i < interval
                    /\ pc' = "wait"
                    /\ i' = i + 1
                    /\ progress' = {<<i + 1, interval>>}
                    /\ \A old \in progress : \A new \in progress' :
                          /\ old[1] * new[2] < new[1] * old[2]
                          /\ (new[1] = new[2]) <=> (i' = interval)
                    /\ screen' = screen
                 \/ /\ i = interval
                    /\ progress = {<<interval, interval>>}
                    /\ pc' = "ping"
                    /\ widgets' = widgets
      ]_vars

C3_Witness == pc = "wait" /\ i = interval /\ progress = {<<interval, interval>>}

\* C4 as stated: a quote call made within 30 seconds of a request with the same
\* arguments issues no request and returns that request's result, whatever that
\* request ended in; a call with no such request in the last 30 seconds issues one
C4_SecondCallNeverRequests ==
    obs.fn = "quotes" =>
        /\ obs.prior # {} => (~obs.net /\ ~obs.ret.raised /\ obs.ret.df = Prior.val.ret)
        /\ obs.prior = {} => obs.net

\* C4 as amended: a quote call made within 30 seconds of a request with the same
\* arguments that returned a result issues no request and returns that result; a
\* call with no such request in the last 30 seconds issues one, and so does a call
\* that follows a request that raised
C4_SecondCallAfterResult ==
    obs.fn = "quotes" =>
        /\ (obs.prior # {} /\ ~Prior.val.failed) =>
              (~obs.net /\ ~obs.ret.raised /\ obs.ret.df = Prior.val.ret)
        /\ (obs.prior # {} /\ Prior.val.failed) => obs.net
        /\ obs.prior = {} => obs.net

C4_Witness ==
    /\ obs.fn = "quotes"
    /\ obs.prior # {}
    /\ ~Prior.val.failed
    /\ Prior.age > 0
    /\ ~obs.net
    /\ ~empty(df)

\* the number of places of the list `coins` that hold the id `coin`
Occurrences(coin) == Cardinality({n \in 1..Len(coins) : coins[n] = coin})

\* the last history request made for a coin, while it is within the TTL
LastChartRequest(coin) == CacheGet(reqs.chart, ChartKey(coin))

\* C5: a history request that fails makes fetch_market_chart return an empty frame
\* without raising; the loop shows the warning of that coin and goes on; no run ends
\* in the chart loop; and a run that reaches WAITING with the charts on has shown,
\* place by place of the requested list, the warning of every coin whose request
\* failed (one per place: as many warnings as the list names the coin) and the
\* panel of every coin whose request brought prices
C5_HistoryFailureIsLocal ==
    LET panels == Shown("chart")
    IN /\ (obs.fn = "chart" /\ obs.failed) =>
             /\ ~obs.ret.raised
             /\ Len(obs.ret.df.rows) = 0
             /\ pc \in {"charts", "wait"}
             /\ Len(panels) = ci
             /\ panels[ci] = [kind |-> "warning", of |-> "chart", arg |-> obs.key[1]]
       /\ pc \in {"crashed", "stopped"} => panels = <<>>
       /\ (pc = "wait" /\ i = 0 /\ show_chart) =>
             /\ Len(panels) = Len(coins)
             /\ \A n \in 1..Len(coins) :
                   \A r \in LastChartRequest(coins[n]) :
                       /\ panels[n].arg = coins[n]
                       /\ r.val.failed => panels[n].kind = "warning"
                       /\ Len(r.val.ret.rows) > 0 => panels[n].kind = "plotly_chart"
             /\ \A c \in Range(coins) :
                   (\E r \in LastChartRequest(c) : r.val.failed) =>
                       Len(SelectSeq(panels, LAMBDA e : e.kind = "warning" /\ e.arg = c))
                           = Occurrences(c)

\* a run in WAITING whose first coin's history request failed in this run and whose
\* second coin's panel was drawn all the same
C5_Witness ==
    /\ pc = "wait"
    /\ show_chart
    /\ Len(coins) = 2
    /\ Len(Requested("chart")) = 2
    /\ \E r \in LastChartRequest(coins[1]) : r.val.failed /\ r.age = i
    /\ Shown("chart")[1].kind = "warning"
    /\ Shown("chart")[2].kind = "plotly_chart"

\* the run is past the cards / past the table, or has ended after the quote fetch
\* returned rows
PastCards == pc \in {"table", "charts", "wait", "crashed"}
PastTable == pc \in {"charts", "wait", "crashed"}

\* C6: once a run is past the card section the page holds one card per row the quote
\* fetch returned, never more than the ids requested; once it is past the table the
\* page holds one table with as many rows, each of 14 display columns
C6_CardsAndRowsMatchQuotes ==
    /\ PastCards =>
          /\ Len(Shown("cards")) = Len(df.rows)
          /\ Len(Shown("cards")) <= Len(coins)
    /\ PastTable =>
          /\ Len(Shown("table")) = 1
          /\ Len(Shown("table")[1].rows) = Len(df.rows)
          /\ \A m \in 1..Len(df.rows) : Len(Shown("table")[1].rows[m]) = 14

RECURSIVE IsSubSeq(_, _)
\* a is b with some places left out
IsSubSeq(a, b) ==
    IF a = <<>> THEN TRUE
    ELSE IF b = <<>> THEN FALSE
    ELSE IF Head(a) = Head(b) THEN IsSubSeq(Tail(a), Tail(b))
    ELSE IsSubSeq(a, Tail(b))

\* C7: with the charts off a run issues no history request and draws no chart panel;
\* with them on, the panels and warnings on the page are, place by place, those of
\* the first ci requested ids, the history requests issued are requests of the
\* requested ids in the order of the list (a cached id needs none), never more
\* than one per turn of the loop, and in WAITING there is one panel or warning per
\* requested id
C7_ChartsInRequestOrder ==
    LET panels == Shown("chart")
        asked == Requested("chart")
    IN /\ ~show_chart => (panels = <<>> /\ asked = <<>>)
       /\ show_chart =>
             /\ Len(panels) <= Len(coins)
             /\ \A n \in 1..Len(panels) :
                   /\ panels[n].arg = coins[n]
                   /\ panels[n].kind \in {"plotly_chart", "warning"}
             /\ pc = "charts" => Len(panels) = ci
             /\ pc = "wait" => Len(panels) = Len(coins)
             /\ Len(asked) <= Len(panels)
             /\ IsSubSeq([n \in 1..Len(asked) |-> asked[n].key],
                         [n \in 1..Len(panels) |-> ChartKey(coins[n])])

C7_Witness ==
    /\ pc = "wait"
    /\ show_chart
    /\ coins = <<"ethereum", "bitcoin">>
    /\ Len(Requested("chart")) = 2
    /\ Shown("chart")[1].kind = "plotly_chart"
    /\ Shown("chart")[2].kind = "plotly_chart"

\* the quote fetch of this run returned rows of which one has no number in a
\* percentage field (the key missing from the row, or null)
HasMissingPct ==
    /\ obs.fn # ""
    /\ pc \notin {"ping", "quotes", "stopped"}
    /\ \E m \in 1..Len(df.rows) : \E f \in PctFields : isna(df.rows[m][f])

\* C8: a row without a number in a percentage field is no error: the run does not
\* abort, the card of a row without a 24h change shows the dash, and the table
\* shows the dash in every percentage cell without a number
C8_MissingPctIsNoData ==
    HasMissingPct =>
        /\ pc # "crashed"
        /\ PastCards =>
              /\ Len(Shown("cards")) = Len(df.rows)
              /\ \A m \in 1..Len(df.rows) :
                    isna(df.rows[m][P24h]) => Shown("cards")[m].dash
        /\ PastTable =>
              /\ Len(Shown("table")) = 1
              /\ \A m \in 1..Len(df.rows) : \A n \in 1..Len(columns_display) :
                    (columns_display[n] \in PctFields /\ isna(df.rows[m][columns_display[n]]))
                        => Shown("table")[1].rows[m][n].shows = "dash"

\* the values a percentage cell can hold
CellValues == {NaN, None} \cup {Num(n) : n \in {-3100, -4, 0, 4, 1500, 5200}}

Green == "color: green; font-weight: bold;"
Red == "color: red; font-weight: bold;"

\* the class the claim gives a value: green above 0, red below 0 and at 0, none for
\* a value that is not a number
ClassOf(val) ==
    IF val.k \in {"nan", "none"} THEN ""
    ELSE IF val.v > 0 THEN Green
    ELSE IF val.v < 0 THEN Red
    ELSE Red

\* C9: color_delta gives every value exactly the style of its class, and every
\* percentage cell of a table on the page carries the style of the class of the
\* value of df it shows
C9_ColorDeltaClasses ==
    /\ \A val \in CellValues :
          /\ color_delta(val) = ClassOf(val)
          /\ color_delta(val) \in {Green, Red, ""}
    /\ \A t \in Range(Shown("table")) :
          \A m \in 1..Len(t.rows) : \A n \in 1..Len(columns_display) :
              t.rows[m][n].style =
                  IF columns_display[n] \in PctFields
                  THEN ClassOf(df.rows[m][columns_display[n]]) ELSE ""

\* a table on the page with a cell of value 0 in red, a positive one in green and a
\* cell without a number left unstyled
C9_Witness ==
    \E t \in Range(Shown("table")) :
        \E m \in 1..Len(t.rows) : \E n, g, u \in 1..Len(columns_display) :
            /\ columns_display[n] \in PctFields
            /\ df.rows[m][columns_display[n]] = Num(0)
            /\ t.rows[m][n].style = Red
            /\ columns_display[g] \in PctFields
            /\ t.rows[m][g].style = Green
            /\ \E k \in 1..Len(t.rows) :
                  /\ columns_display[u] \in PctFields
                  /\ isna(df.rows[k][columns_display[u]])
                  /\ t.rows[k][u].style = ""

\* C10: a ping or history call made within the TTL of a request with the same
\* arguments that failed issues no request and returns the same failure value
\* (-1, the empty frame); a quote call that raised leaves no cache entry, and a
\* quote call is answered without a request only when a request with the same
\* arguments returned a result within the TTL
C10_FailuresMemoizedExceptQuotes ==
    /\ (obs.fn = "ping" /\ obs.prior # {}) =>
          (Prior.val.failed => (~obs.net /\ obs.ret = -1 /\ Prior.val.ret = -1))
    /\ (obs.fn = "chart" /\ obs.prior # {}) =>
          (Prior.val.failed =>
              (~obs.net /\ ~obs.ret.raised /\ Len(obs.ret.df.rows) = 0
               /\ obs.ret.df = Prior.val.ret))
    /\ obs.fn = "quotes" =>
          /\ obs.ret.raised => (obs.net /\ CacheGet(cache.quotes, obs.key) = {})
          /\ (obs.prior # {} /\ Prior.val.failed) => obs.net
          /\ ~obs.net => (obs.prior # {} /\ ~Prior.val.failed)

\* a run that began within 60 seconds of a failed ping and showed the cached failure
C10_Witness ==
    /\ obs.fn = "ping"
    /\ obs.prior # {}
    /\ Prior.val.failed
    /\ Prior.age >= IntervalMin
    /\ ~obs.net
    /\ Shown("ping")[1].kind = "error"

====
